---- MODULE Spec2Model ----
(***************************************************************************)
(* Model of run() in src/main.ts (terra-pr-commenter) and of the pull      *)
(* request helpers of src/pull-request.ts: the plan pipeline (redaction,   *)
(* action classification, diff rendering, report assembly), the cleanup of *)
(* previous comments and the publication of the new ones.                  *)
(*                                                                         *)
(* Strings the program builds are modelled by their structure (records,    *)
(* maps, sets of lines) together with the length the program would         *)
(* measure; JSON objects are maps from attribute names to value tokens.    *)
(***************************************************************************)
EXTENDS Integers, Sequences, FiniteSets, TLC

(***************************************************************************)
(* Bounds of the model.                                                    *)
(***************************************************************************)
\* Runs of the action on one pull request, one after the other.
MaxRuns == 2
\* Resource change entries one run of the comment sink specification may go through.
MaxSinkRecords == 1
\* Plan files found by findTFPlans that one run may go through.
MaxPlans == 2
\* Resource change entries one run may go through, over all its plans.
MaxRecords == 3
\* Length of the text of a long attribute value.
LongValueLen == 40000
\* Resource change entries one run of the redaction specification may go through.
MaxSensitiveRecords == 1

(***************************************************************************)
(* Program constants.                                                      *)
(***************************************************************************)
MAX_GITHUB_COMMENT_BODY_SIZE == 65536
\* The footer every comment body ends with; the lookup text of the cleanup.
COMMENT_FOOTER == "COMMENT_FOOTER"
OLD_SENSITIVE_VALUE == "(OLD_SENSITIVE_VALUE)"
NEW_SENSITIVE_VALUE == "(NEW_SENSITIVE_VALUE)"
\* Characters of the commentBody template outside its placeholders.
CommentBodyTemplateLen == 363
\* Characters ' open' adds to the <details> tag.
ExpandAttributeLen == 5
\* Characters around one ChangeDif in a section: "\n```diff" and "```\n\n".
DiffFenceLen == 13
\* Characters of the diff heading template outside its placeholders.
DiffHeadingTemplateLen == 81

Categories == {"Create", "Update", "Destroy", "Replace", "Import"}

\* The "#### Resources to ...:" line each section starts with.
SectionHeadingLen(category) ==
    CASE category = "Create"  -> 28
      [] category = "Destroy" -> 29
      [] category = "Update"  -> 28
      [] category = "Replace" -> 29
      [] category = "Import"  -> 28

(***************************************************************************)
(* Values of the plan JSON.                                                *)
(***************************************************************************)
\* What reading a key an object does not have yields.
Undefined == "undefined"
\* A long scalar attribute value, known by its length only.
LongValue == "LONG"
\* Values that are objects or lists: each parsed occurrence is an object of
\* its own, so two of them are never === even when their contents agree.
NestedValues == {"{nested: 1}"}

EmptyMap == [k \in {} |-> Undefined]

\* x ? x : {} (an absent or null mapping is given as the empty set, a present
\* one as the set holding it).
OrEmpty(optional) == IF optional = {} THEN EmptyMap ELSE CHOOSE m \in optional : TRUE

\* object[key]
Get(object, key) == IF key \in DOMAIN object THEN object[key] ELSE Undefined

\* delete object[key]
Delete(object, key) == [k \in DOMAIN object \ {key} |-> object[k]]

\* object[key] = value, on a key the object has
Assign(object, key, value) == [k \in DOMAIN object |-> IF k = key THEN value ELSE object[k]]

\* x === y on parsed JSON values of beforeChanges and afterChanges
StrictEquals(x, y) == x = y /\ x \notin NestedValues

\* array.includes(x)
Includes(array, x) == \E i \in DOMAIN array : array[i] = x

\* The number of characters of a token.
TextLen(text) == IF text = LongValue THEN LongValueLen ELSE Len(text)

\* The number of characters of a count written in decimal.
DecimalLen(n) == IF n < 10 THEN 1 ELSE IF n < 100 THEN 2 ELSE 3

RECURSIVE SumOver(_, _)
SumOver(S, f) ==
    IF S = {} THEN 0
    ELSE LET x == CHOOSE y \in S : TRUE IN f[x] + SumOver(S \ {x}, [y \in S \ {x} |-> f[y]])

(***************************************************************************)
(* Sensitive-field redaction (the two for-in loops).                       *)
(***************************************************************************)
\* RedactKey without the two 'in' tests: a changed sensitive key is written
\* on both sides, also on the side that did not have it.
RedactKeyWithoutInTest(changes, sensitiveParamKey) ==
    LET beforeChanges == changes.before
        afterChanges  == changes.after
    IN IF StrictEquals(Get(beforeChanges, sensitiveParamKey),
                       Get(afterChanges, sensitiveParamKey))
       THEN [before |-> Delete(beforeChanges, sensitiveParamKey),
             after  |-> Delete(afterChanges, sensitiveParamKey)]
       ELSE [before |-> [k \in DOMAIN beforeChanges \cup {sensitiveParamKey} |->
                            IF k = sensitiveParamKey THEN OLD_SENSITIVE_VALUE
                            ELSE beforeChanges[k]],
             after  |-> [k \in DOMAIN afterChanges \cup {sensitiveParamKey} |->
                            IF k = sensitiveParamKey THEN NEW_SENSITIVE_VALUE
                            ELSE afterChanges[k]]]

\* The body of either loop, for one sensitiveParamKey, on the pair of
\* working mappings.
RedactKey(changes, sensitiveParamKey) ==
    LET beforeChanges == changes.before
        afterChanges  == changes.after
    IN IF StrictEquals(Get(beforeChanges, sensitiveParamKey),
                       Get(afterChanges, sensitiveParamKey))
       THEN [before |-> Delete(beforeChanges, sensitiveParamKey),
             after  |-> Delete(afterChanges, sensitiveParamKey)]
       ELSE [before |-> IF sensitiveParamKey \in DOMAIN beforeChanges
                        THEN Assign(beforeChanges, sensitiveParamKey, OLD_SENSITIVE_VALUE)
                        ELSE beforeChanges,
             after  |-> IF sensitiveParamKey \in DOMAIN afterChanges
                        THEN Assign(afterChanges, sensitiveParamKey, NEW_SENSITIVE_VALUE)
                        ELSE afterChanges]

\* One for-in loop over the keys of a sensitivity mapping.
RECURSIVE RedactKeys(_, _)
RedactKeys(changes, sensitiveKeys) ==
    IF sensitiveKeys = {} THEN changes
    ELSE LET key == CHOOSE k \in sensitiveKeys : TRUE
         IN RedactKeys(RedactKey(changes, key), sensitiveKeys \ {key})

\* Lines 96-146: the working mappings of a resource change after both loops.
Redact(resourceChange) ==
    LET beforeSensitiveParams == OrEmpty(resourceChange.before_sensitive)
        afterSensitiveParams  == OrEmpty(resourceChange.after_sensitive)
        initial == [before |-> OrEmpty(resourceChange.before),
                    after  |-> OrEmpty(resourceChange.after)]
    IN RedactKeys(RedactKeys(initial, DOMAIN beforeSensitiveParams),
                  DOMAIN afterSensitiveParams)

(***************************************************************************)
(* Action classification (the switch on resourceChangeActions[0]).         *)
(***************************************************************************)
NoIncrement ==
    [CreateResourcesCount |-> 0, UpdateResourcesCount |-> 0,
     DestroyResourcesCount |-> 0, ReplaceResourcesCount |-> 0,
     ImportResourcesCount |-> 0]

\* The switch with the 'importing' test left out: every "no-op" entry is
\* taken for an import.
ResolveActionWithoutImportingTest(resourceChange) ==
    LET first == resourceChange.actions[1]
    IN CASE first = "no-op" ->
              [overallAction |-> "Import", noChanges |-> FALSE,
               increments |-> [NoIncrement EXCEPT !.ImportResourcesCount = 1]]
         [] first = "create" ->
              [overallAction |-> "Create", noChanges |-> FALSE,
               increments |-> [NoIncrement EXCEPT !.CreateResourcesCount = 1]]
         [] first = "delete" ->
              IF Includes(resourceChange.actions, "create")
              THEN [overallAction |-> "Replace", noChanges |-> FALSE,
                    increments |-> [NoIncrement EXCEPT !.CreateResourcesCount = 1,
                                                       !.DestroyResourcesCount = 1,
                                                       !.ReplaceResourcesCount = 1]]
              ELSE [overallAction |-> "Destroy", noChanges |-> FALSE,
                    increments |-> [NoIncrement EXCEPT !.DestroyResourcesCount = 1]]
         [] first = "update" ->
              [overallAction |-> "Update", noChanges |-> FALSE,
               increments |-> [NoIncrement EXCEPT !.UpdateResourcesCount = 1]]
         [] OTHER ->
              [overallAction |-> "", noChanges |-> TRUE, increments |-> NoIncrement]

\* The switch without the noChanges flag: an entry no case matches goes on
\* with an empty overallAction.
ResolveActionWithoutNoChanges(resourceChange) ==
    LET first == resourceChange.actions[1]
    IN CASE first = "no-op" ->
              IF resourceChange.importing
              THEN [overallAction |-> "Import", noChanges |-> FALSE,
                    increments |-> [NoIncrement EXCEPT !.ImportResourcesCount = 1]]
              ELSE [overallAction |-> "", noChanges |-> TRUE, increments |-> NoIncrement]
         [] first = "create" ->
              [overallAction |-> "Create", noChanges |-> FALSE,
               increments |-> [NoIncrement EXCEPT !.CreateResourcesCount = 1]]
         [] first = "delete" ->
              IF Includes(resourceChange.actions, "create")
              THEN [overallAction |-> "Replace", noChanges |-> FALSE,
                    increments |-> [NoIncrement EXCEPT !.CreateResourcesCount = 1,
                                                       !.DestroyResourcesCount = 1,
                                                       !.ReplaceResourcesCount = 1]]
              ELSE [overallAction |-> "Destroy", noChanges |-> FALSE,
                    increments |-> [NoIncrement EXCEPT !.DestroyResourcesCount = 1]]
         [] first = "update" ->
              [overallAction |-> "Update", noChanges |-> FALSE,
               increments |-> [NoIncrement EXCEPT !.UpdateResourcesCount = 1]]
         [] OTHER ->
              [overallAction |-> "", noChanges |-> FALSE, increments |-> NoIncrement]

\* The switch with a default case shared with 'update': an entry no other
\* case matches is counted as an update.
ResolveActionWithUpdateDefault(resourceChange) ==
    LET first == resourceChange.actions[1]
    IN CASE first = "no-op" ->
              IF resourceChange.importing
              THEN [overallAction |-> "Import", noChanges |-> FALSE,
                    increments |-> [NoIncrement EXCEPT !.ImportResourcesCount = 1]]
              ELSE [overallAction |-> "", noChanges |-> TRUE, increments |-> NoIncrement]
         [] first = "create" ->
              [overallAction |-> "Create", noChanges |-> FALSE,
               increments |-> [NoIncrement EXCEPT !.CreateResourcesCount = 1]]
         [] first = "delete" ->
              IF Includes(resourceChange.actions, "create")
              THEN [overallAction |-> "Replace", noChanges |-> FALSE,
                    increments |-> [NoIncrement EXCEPT !.CreateResourcesCount = 1,
                                                       !.DestroyResourcesCount = 1,
                                                       !.ReplaceResourcesCount = 1]]
              ELSE [overallAction |-> "Destroy", noChanges |-> FALSE,
                    increments |-> [NoIncrement EXCEPT !.DestroyResourcesCount = 1]]
         [] OTHER ->
              [overallAction |-> "Update", noChanges |-> FALSE,
               increments |-> [NoIncrement EXCEPT !.UpdateResourcesCount = 1]]

\* overallAction, noChanges and the counters the switch increments.
ResolveAction(resourceChange) ==
    LET resourceChangeActions == resourceChange.actions
        first == resourceChangeActions[1]
    IN CASE first = "no-op" ->
              IF resourceChange.importing
              THEN [overallAction |-> "Import", noChanges |-> FALSE,
                    increments |-> [NoIncrement EXCEPT !.ImportResourcesCount = 1]]
              ELSE [overallAction |-> "", noChanges |-> TRUE, increments |-> NoIncrement]
         [] first = "create" ->
              [overallAction |-> "Create", noChanges |-> FALSE,
               increments |-> [NoIncrement EXCEPT !.CreateResourcesCount = 1]]
         [] first = "delete" ->
              IF Includes(resourceChangeActions, "delete")
                 /\ Includes(resourceChangeActions, "create")
              THEN [overallAction |-> "Replace", noChanges |-> FALSE,
                    increments |-> [NoIncrement EXCEPT !.CreateResourcesCount = 1,
                                                       !.DestroyResourcesCount = 1,
                                                       !.ReplaceResourcesCount = 1]]
              ELSE [overallAction |-> "Destroy", noChanges |-> FALSE,
                    increments |-> [NoIncrement EXCEPT !.DestroyResourcesCount = 1]]
         [] first = "update" ->
              [overallAction |-> "Update", noChanges |-> FALSE,
               increments |-> [NoIncrement EXCEPT !.UpdateResourcesCount = 1]]
         [] OTHER ->
              [overallAction |-> "", noChanges |-> TRUE, increments |-> NoIncrement]

(***************************************************************************)
(* Diff rendering.                                                         *)
(***************************************************************************)
\* yaml.stringify(object), as its set of lines: "{}" for an empty mapping,
\* else one "key: value" line per key.
YamlLines(object) ==
    IF DOMAIN object = {} THEN {<<"{}">>}
    ELSE {<<k, object[k]>> : k \in DOMAIN object}

\* The characters of one yaml line.
YamlLineLen(line) ==
    IF Len(line) = 1 THEN TextLen(line[1])
    ELSE TextLen(line[1]) + 2 + TextLen(line[2])

\* diff.createPatch followed by the three replace() calls: the "---" and
\* "+++" lines with their headers, the removed and the added lines; context
\* lines, "Index:", "@@" and bare "{}" lines are gone.
CreateSanitizedPatch(resourceAddress, beforeChanges, afterChanges, oldHeader, newHeader) ==
    [oldHeader |-> oldHeader,
     newHeader |-> newHeader,
     removed   |-> (YamlLines(beforeChanges) \ YamlLines(afterChanges)) \ {<<"{}">>},
     added     |-> (YamlLines(afterChanges) \ YamlLines(beforeChanges)) \ {<<"{}">>}]

\* RenderDiff with Replace in the first branch, next to Create.
RenderDiffReplaceAsCreate(resourceAddress, beforeChanges, afterChanges, overallAction) ==
    IF overallAction \in {"Create", "Update", "Import", "Replace"}
    THEN CreateSanitizedPatch(resourceAddress, beforeChanges, afterChanges,
                              Undefined, overallAction)
    ELSE CreateSanitizedPatch(resourceAddress, beforeChanges, afterChanges,
                              overallAction, Undefined)

\* Lines 196-217: which header carries the action.
RenderDiff(resourceAddress, beforeChanges, afterChanges, overallAction) ==
    IF overallAction \in {"Create", "Update", "Import"}
    THEN CreateSanitizedPatch(resourceAddress, beforeChanges, afterChanges,
                              Undefined, overallAction)
    ELSE CreateSanitizedPatch(resourceAddress, beforeChanges, afterChanges,
                              overallAction, Undefined)

\* "--- address" or "--- address\theader", with its line break.
PatchHeaderLen(resourceAddress, header) ==
    4 + Len(resourceAddress) + (IF header = Undefined THEN 0 ELSE 1 + Len(header)) + 1

\* The characters of ChangeDif: heading, separator and the sanitized patch.
ChangeDifLen(resourceAddress, changeDiff) ==
    DiffHeadingTemplateLen + Len(resourceAddress)
    + PatchHeaderLen(resourceAddress, changeDiff.oldHeader)
    + PatchHeaderLen(resourceAddress, changeDiff.newHeader)
    + SumOver(changeDiff.removed, [l \in changeDiff.removed |-> 1 + YamlLineLen(l) + 1])
    + SumOver(changeDiff.added, [l \in changeDiff.added |-> 1 + YamlLineLen(l) + 1])

(***************************************************************************)
(* Report assembly.                                                        *)
(***************************************************************************)
\* SectionContent with each block put in front of the ones collected before.
SectionContentNewestFirst(changes, category) ==
    LET blocks == SelectSeq(changes.ResouceChangeBody, LAMBDA body : body.Action = category)
    IN [i \in 1..Len(blocks) |-> blocks[Len(blocks) + 1 - i]]

\* The ChangeDif blocks one section collects, in the order of the loop over
\* planChanges.ResouceChangeBody.
SectionContent(changes, category) ==
    SelectSeq(changes.ResouceChangeBody, LAMBDA body : body.Action = category)

\* The template of the version without imports: no Import section.
IncludedSectionsWithoutImport(changes) ==
    {c \in Categories \ {"Import"} :
        CASE c = "Create"  -> changes.CreateResourcesCount > changes.ReplaceResourcesCount
          [] c = "Destroy" -> changes.DestroyResourcesCount > changes.ReplaceResourcesCount
          [] c = "Update"  -> changes.UpdateResourcesCount > 0
          [] c = "Replace" -> changes.ReplaceResourcesCount > 0}

\* The template with the Create and Destroy sections kept whenever their
\* counters are positive, replaced resources counted in.
IncludedSectionsByPositiveCount(changes) ==
    {c \in Categories :
        CASE c = "Create"  -> changes.CreateResourcesCount > 0
          [] c = "Destroy" -> changes.DestroyResourcesCount > 0
          [] c = "Update"  -> changes.UpdateResourcesCount > 0
          [] c = "Replace" -> changes.ReplaceResourcesCount > 0
          [] c = "Import"  -> changes.ImportResourcesCount > 0}

\* The conditions under which the template keeps each section.
IncludedSections(changes) ==
    {c \in Categories :
        CASE c = "Create"  -> changes.CreateResourcesCount > changes.ReplaceResourcesCount
          [] c = "Destroy" -> changes.DestroyResourcesCount > changes.ReplaceResourcesCount
          [] c = "Update"  -> changes.UpdateResourcesCount > 0
          [] c = "Replace" -> changes.ReplaceResourcesCount > 0
          [] c = "Import"  -> changes.ImportResourcesCount > 0}

\* The commentBody template without its last line, ${COMMENT_FOOTER}.
CommentBodyWithoutFooter(header, changes, expandComment) ==
    [header   |-> header,
     badges   |-> [Create  |-> changes.CreateResourcesCount,
                   Update  |-> changes.UpdateResourcesCount,
                   Replace |-> changes.ReplaceResourcesCount,
                   Destroy |-> changes.DestroyResourcesCount,
                   Import  |-> changes.ImportResourcesCount],
     open     |-> expandComment,
     sections |-> [c \in IncludedSections(changes) |-> SectionContent(changes, c)],
     footer   |-> ""]

\* The commentBody template, filled in.
CommentBody(header, changes, expandComment) ==
    [header   |-> header,
     badges   |-> [Create  |-> changes.CreateResourcesCount,
                   Update  |-> changes.UpdateResourcesCount,
                   Replace |-> changes.ReplaceResourcesCount,
                   Destroy |-> changes.DestroyResourcesCount,
                   Import  |-> changes.ImportResourcesCount],
     open     |-> expandComment,
     sections |-> [c \in IncludedSections(changes) |-> SectionContent(changes, c)],
     footer   |-> COMMENT_FOOTER]

\* The characters of one section: its heading line and its fenced diffs.
SectionLen(content, category) ==
    SectionHeadingLen(category)
    + SumOver(DOMAIN content,
              [i \in DOMAIN content |->
                  DiffFenceLen + ChangeDifLen(content[i].Address, content[i].ChangeDif)])

\* commentBody.length
CommentBodyLen(body) ==
    CommentBodyTemplateLen + Len(body.header)
    + SumOver(DOMAIN body.badges, [b \in DOMAIN body.badges |-> DecimalLen(body.badges[b])])
    + (IF body.open THEN ExpandAttributeLen ELSE 0)
    + SumOver(DOMAIN body.sections,
              [c \in DOMAIN body.sections |-> SectionLen(body.sections[c], c)])
    + Len(body.footer)

\* comment.body.includes(lookupText), for a stored comment.
BodyIncludes(comment, lookupText) == lookupText = COMMENT_FOOTER /\ comment.footer

(***************************************************************************)
(* State of one run.                                                       *)
(***************************************************************************)
VARIABLES
    runNumber,              \* which run of the action on the pull request this is
    pc,                     \* where run() stands
    inputs,                 \* the action inputs read at the start of run()
    planIndex,              \* plans of tfPlanFiles taken so far
    position,               \* entries of the current plan's resource_changes taken so far
    recordCount,            \* entries taken so far, over all plans
    resolvedCommentHeader,  \* the heading of the current plan
    planChanges,            \* the counters and ResouceChangeBody of the current plan
    last,                   \* the entry the loop body ran on last, with its locals
    planComments,           \* the comment bodies collected so far
    plansWithChanges,       \* plans that ended their loop with a non-empty ResouceChangeBody
    failed,                 \* the messages given to core.setFailed
    warnings,               \* the messages given to core.warning
    comments,               \* the comments of the pull request
    targetComments,         \* what QueryCommentsByLookupText returned
    inflight,               \* ids whose removal was requested and has not settled
    handed                  \* the bodies CreatePRComment was called with, in order

vars == <<runNumber, pc, inputs, planIndex, position, recordCount, resolvedCommentHeader,
          planChanges, last, planComments, plansWithChanges, failed, warnings,
          comments, targetComments, inflight, handed>>

pipelineVars == <<planIndex, position, recordCount, resolvedCommentHeader,
                  planChanges, last, planComments, plansWithChanges>>
sinkVars == <<comments, targetComments, inflight, handed>>

\* The planChanges literal a plan starts with.
EmptyPlanChanges ==
    [CreateResourcesCount |-> 0, UpdateResourcesCount |-> 0,
     DestroyResourcesCount |-> 0, ReplaceResourcesCount |-> 0,
     ImportResourcesCount |-> 0, ResouceChangeBody |-> <<>>]

\* The address of the entry at a position of resource_changes (unique in a plan).
AddressAt(n) == "res." \o ToString(n)

\* The state before run() is called, with the pull request's comments given.
InitWith(configurations, existing) ==
    /\ runNumber = 1
    /\ pc = "plans"
    /\ inputs \in configurations
    /\ planIndex = 0
    /\ position = 0
    /\ recordCount = 0
    /\ resolvedCommentHeader = ""
    /\ planChanges = EmptyPlanChanges
    /\ last = <<>>
    /\ planComments = <<>>
    /\ plansWithChanges = 0
    /\ failed = <<>>
    /\ warnings = {}
    /\ comments = existing
    /\ targetComments = {}
    /\ inflight = {}
    /\ handed = <<>>

(***************************************************************************)
(* The loop over tfPlanFiles.                                              *)
(***************************************************************************)
\* Lines 55-88: the next plan file is read and parsed, its heading resolved
\* and the loop over its resource_changes entered. A file that is not JSON
\* throws out of run()'s outer try; resource_changes that cannot be iterated
\* throws inside the inner try.
ParsePlan(plan) ==
    /\ pc = "plans"
    /\ planIndex < MaxPlans
    /\ planIndex' = planIndex + 1
    /\ position' = 0
    /\ last' = <<>>
    /\ UNCHANGED <<runNumber, inputs, recordCount, planComments, plansWithChanges, sinkVars>>
    /\ IF ~plan.parses
       THEN /\ failed' = Append(failed, [kind |-> "error", plan |-> planIndex + 1,
                                         actual |-> 0, max |-> 0])
            /\ pc' = "done"
            /\ UNCHANGED <<resolvedCommentHeader, planChanges, warnings>>
       ELSE /\ planChanges' = EmptyPlanChanges
            /\ IF inputs.headingPlanVariableName # ""
               THEN IF inputs.headingPlanVariableName \in plan.variables
                    THEN /\ resolvedCommentHeader' = "variable value"
                         /\ UNCHANGED warnings
                    ELSE /\ resolvedCommentHeader' = inputs.commentHeader
                         /\ warnings' = warnings \cup
                                {[kind |-> "variable",
                                  subject |-> inputs.headingPlanVariableName]}
               ELSE /\ resolvedCommentHeader' = inputs.commentHeader
                    /\ UNCHANGED warnings
            /\ IF plan.resource_changes
               THEN /\ pc' = "records"
                    /\ UNCHANGED failed
               ELSE /\ failed' = Append(failed, [kind |-> "invalid", plan |-> planIndex + 1,
                                                 actual |-> 0, max |-> 0])
                    /\ pc' = "done"

\* Lines 90-239: the loop body on one entry of resource_changes.
ProcessResourceChange(resourceChange) ==
    /\ pc = "records"
    /\ recordCount < MaxRecords
    /\ LET resourceAddress == AddressAt(position + 1)
           changes  == Redact(resourceChange)
           resolved == ResolveAction(resourceChange)
           changeDiff == RenderDiff(resourceAddress, changes.before, changes.after,
                                    resolved.overallAction)
           counted == [planChanges EXCEPT
                          !.CreateResourcesCount  = @ + resolved.increments.CreateResourcesCount,
                          !.UpdateResourcesCount  = @ + resolved.increments.UpdateResourcesCount,
                          !.DestroyResourcesCount = @ + resolved.increments.DestroyResourcesCount,
                          !.ReplaceResourcesCount = @ + resolved.increments.ReplaceResourcesCount,
                          !.ImportResourcesCount  = @ + resolved.increments.ImportResourcesCount]
       IN /\ last' = <<[resourceChange |-> resourceChange,
                        beforeChanges  |-> changes.before,
                        afterChanges   |-> changes.after,
                        overallAction  |-> resolved.overallAction,
                        noChanges      |-> resolved.noChanges]>>
          /\ planChanges' =
                IF resolved.noChanges THEN counted
                ELSE [counted EXCEPT !.ResouceChangeBody =
                         Append(@, [Address   |-> resourceAddress,
                                    ChangeDif |-> changeDiff,
                                    Action    |-> resolved.overallAction])]
    /\ position' = position + 1
    /\ recordCount' = recordCount + 1
    /\ UNCHANGED <<runNumber, pc, inputs, planIndex, resolvedCommentHeader, planComments,
                   plansWithChanges, failed, warnings, sinkVars>>

\* InvalidResourceChange with the inner catch going on to the next plan
\* instead of returning.
InvalidResourceChangeSkippingPlan ==
    /\ pc = "records"
    /\ recordCount < MaxRecords
    /\ failed' = Append(failed, [kind |-> "invalid", plan |-> planIndex,
                                 actual |-> 0, max |-> 0])
    /\ pc' = "plans"
    /\ last' = <<>>
    /\ UNCHANGED <<runNumber, inputs, planIndex, position, recordCount, resolvedCommentHeader,
                   planChanges, planComments, plansWithChanges, warnings, sinkVars>>

\* Lines 91-94 and 240-244: an entry without its 'change' object throws a
\* TypeError, which the inner catch turns into a failed run.
InvalidResourceChange ==
    /\ pc = "records"
    /\ recordCount < MaxRecords
    /\ failed' = Append(failed, [kind |-> "invalid", plan |-> planIndex,
                                 actual |-> 0, max |-> 0])
    /\ pc' = "done"
    /\ last' = <<>>
    /\ UNCHANGED <<runNumber, inputs, planIndex, position, recordCount, resolvedCommentHeader,
                   planChanges, planComments, plansWithChanges, warnings, sinkVars>>

\* AssemblePlan with the over-long body cut down to its frame and collected
\* instead of failing the run.
AssemblePlanTruncating ==
    /\ pc = "records"
    /\ last' = <<>>
    /\ UNCHANGED <<runNumber, inputs, planIndex, position, recordCount, resolvedCommentHeader,
                   planChanges, warnings, sinkVars, failed>>
    /\ pc' = "plans"
    /\ IF Len(planChanges.ResouceChangeBody) = 0
       THEN UNCHANGED <<planComments, plansWithChanges>>
       ELSE LET commentBody == CommentBody(resolvedCommentHeader, planChanges,
                                           inputs.expandComment)
            IN /\ plansWithChanges' = plansWithChanges + 1
               /\ planComments' =
                     Append(planComments,
                            IF CommentBodyLen(commentBody) > MAX_GITHUB_COMMENT_BODY_SIZE
                            THEN [commentBody EXCEPT !.sections = [c \in {} |-> <<>>]]
                            ELSE commentBody)

\* AssemblePlan as it was before the test for an empty ResouceChangeBody: a
\* plan without changes gets a comment body too.
AssemblePlanWithoutEmptyTest ==
    /\ pc = "records"
    /\ last' = <<>>
    /\ UNCHANGED <<runNumber, inputs, planIndex, position, recordCount, resolvedCommentHeader,
                   planChanges, warnings, sinkVars>>
    /\ LET commentBody == CommentBody(resolvedCommentHeader, planChanges,
                                      inputs.expandComment)
       IN /\ plansWithChanges' = plansWithChanges
                + (IF Len(planChanges.ResouceChangeBody) = 0 THEN 0 ELSE 1)
          /\ IF CommentBodyLen(commentBody) > MAX_GITHUB_COMMENT_BODY_SIZE
             THEN /\ failed' = Append(failed,
                                  [kind |-> "size", plan |-> planIndex,
                                   actual |-> CommentBodyLen(commentBody),
                                   max |-> MAX_GITHUB_COMMENT_BODY_SIZE])
                  /\ pc' = "done"
                  /\ UNCHANGED planComments
             ELSE /\ planComments' = Append(planComments, commentBody)
                  /\ pc' = "plans"
                  /\ UNCHANGED failed

\* Lines 246-337: after the last entry of a plan, the comment body is built,
\* measured and collected.
AssemblePlan ==
    /\ pc = "records"
    /\ last' = <<>>
    /\ UNCHANGED <<runNumber, inputs, planIndex, position, recordCount, resolvedCommentHeader,
                   planChanges, warnings, sinkVars>>
    /\ IF Len(planChanges.ResouceChangeBody) = 0
       THEN /\ pc' = "plans"
            /\ UNCHANGED <<planComments, plansWithChanges, failed>>
       ELSE LET commentBody == CommentBody(resolvedCommentHeader, planChanges,
                                           inputs.expandComment)
            IN /\ plansWithChanges' = plansWithChanges + 1
               /\ IF CommentBodyLen(commentBody) > MAX_GITHUB_COMMENT_BODY_SIZE
                  THEN /\ failed' = Append(failed,
                                       [kind |-> "size", plan |-> planIndex,
                                        actual |-> CommentBodyLen(commentBody),
                                        max |-> MAX_GITHUB_COMMENT_BODY_SIZE])
                       /\ pc' = "done"
                       /\ UNCHANGED planComments
                  ELSE /\ planComments' = Append(planComments, commentBody)
                       /\ pc' = "plans"
                       /\ UNCHANGED failed

\* EndOfPlans without the test of planComments.length: the cleanup is
\* called whether or not a comment body was collected.
EndOfPlansWithoutEmptyTest ==
    /\ pc = "plans"
    /\ pc' = "cleanup"
    /\ position' = 0
    /\ resolvedCommentHeader' = ""
    /\ planChanges' = EmptyPlanChanges
    /\ UNCHANGED <<runNumber, inputs, planIndex, recordCount, last, planComments,
                   plansWithChanges, failed, warnings, sinkVars>>

\* Lines 340-345: after the last plan, run() returns when nothing was
\* collected and calls RemoveCommentsByLookupText otherwise. The variables
\* declared in the loop body end with the loop.
EndOfPlans ==
    /\ pc = "plans"
    /\ pc' = IF Len(planComments) = 0 THEN "done" ELSE "cleanup"
    /\ position' = 0
    /\ resolvedCommentHeader' = ""
    /\ planChanges' = EmptyPlanChanges
    /\ UNCHANGED <<runNumber, inputs, planIndex, recordCount, last, planComments,
                   plansWithChanges, failed, warnings, sinkVars>>

(***************************************************************************)
(* Cleanup and publication (src/pull-request.ts).                          *)
(***************************************************************************)
\* RemoveCommentsByLookupText up to its return: the query, the filter, and a
\* removal request started for every comment kept. A rejected query throws
\* into run()'s outer catch.
QueryComments(answered) ==
    /\ pc = "cleanup"
    /\ UNCHANGED <<runNumber, inputs, pipelineVars, warnings, comments, handed>>
    /\ IF answered
       THEN LET filteredComments ==
                    {c \in comments : BodyIncludes(c, COMMENT_FOOTER)}
            IN /\ targetComments' = filteredComments
               /\ inflight' = {c.id : c \in filteredComments}
               /\ pc' = "publish"
               /\ UNCHANGED failed
       ELSE /\ failed' = Append(failed, [kind |-> "error", plan |-> 0,
                                         actual |-> 0, max |-> 0])
            /\ pc' = "done"
            /\ UNCHANGED <<targetComments, inflight>>

\* RemovalSettles with the comments to remove looked up when the removal
\* is carried out: every comment holding the footer by then goes.
RemovalSettlesByMarker(id, removed) ==
    /\ id \in inflight
    /\ inflight' = inflight \ {id}
    /\ IF removed
       THEN /\ comments' = {c \in comments : ~BodyIncludes(c, COMMENT_FOOTER)}
            /\ UNCHANGED warnings
       ELSE /\ warnings' = warnings \cup {[kind |-> "removal", subject |-> ToString(id)]}
            /\ UNCHANGED comments
    /\ UNCHANGED <<runNumber, pc, inputs, pipelineVars, failed, targetComments, handed>>

\* RemovalSettles without the try and catch around the removal: a failed
\* removal gives up the removals still pending and fails the run.
RemovalSettlesAbortingBatch(id, removed) ==
    /\ id \in inflight
    /\ IF removed
       THEN /\ comments' = {c \in comments : c.id # id}
            /\ inflight' = inflight \ {id}
            /\ UNCHANGED <<pc, failed>>
       ELSE /\ inflight' = {}
            /\ failed' = Append(failed, [kind |-> "error", plan |-> 0,
                                         actual |-> 0, max |-> 0])
            /\ pc' = "done"
            /\ UNCHANGED comments
    /\ UNCHANGED <<runNumber, inputs, pipelineVars, warnings, targetComments, handed>>

\* One forEach callback after its await: the removal succeeded, or it failed
\* and the catch logs a warning.
RemovalSettles(id, removed) ==
    /\ id \in inflight
    /\ inflight' = inflight \ {id}
    /\ IF removed
       THEN /\ comments' = {c \in comments : c.id # id}
            /\ UNCHANGED warnings
       ELSE /\ warnings' = warnings \cup {[kind |-> "removal", subject |-> ToString(id)]}
            /\ UNCHANGED comments
    /\ UNCHANGED <<runNumber, pc, inputs, pipelineVars, failed, targetComments, handed>>

\* PublishComment with a try and catch around each CreatePRComment call: a
\* rejected call fails the run and the loop goes on to the next body.
PublishCommentContinuing(created) ==
    /\ pc = "publish"
    /\ Len(handed) < Len(planComments)
    /\ LET planComment == planComments[Len(handed) + 1]
       IN /\ handed' = Append(handed, planComment)
          /\ pc' = IF Len(handed) + 1 = Len(planComments) THEN "done" ELSE "publish"
          /\ IF created
             THEN /\ comments' = comments \cup
                        {[id |-> 100 * runNumber + Len(handed) + 1,
                          footer |-> planComment.footer = COMMENT_FOOTER,
                          report |-> Len(handed) + 1]}
                  /\ UNCHANGED failed
             ELSE /\ failed' = Append(failed, [kind |-> "error", plan |-> 0,
                                               actual |-> 0, max |-> 0])
                  /\ UNCHANGED comments
    /\ UNCHANGED <<runNumber, inputs, pipelineVars, warnings, targetComments, inflight>>

\* Lines 347-353: CreatePRComment on the next collected body. A rejected
\* call throws into run()'s outer catch.
PublishComment(created) ==
    /\ pc = "publish"
    /\ Len(handed) < Len(planComments)
    /\ LET planComment == planComments[Len(handed) + 1]
       IN /\ handed' = Append(handed, planComment)
          /\ IF created
             THEN /\ comments' = comments \cup
                        {[id |-> 100 * runNumber + Len(handed) + 1,
                          footer |-> planComment.footer = COMMENT_FOOTER,
                          report |-> Len(handed) + 1]}
                  /\ pc' = IF Len(handed) + 1 = Len(planComments) THEN "done" ELSE "publish"
                  /\ UNCHANGED failed
             ELSE /\ failed' = Append(failed, [kind |-> "error", plan |-> 0,
                                               actual |-> 0, max |-> 0])
                  /\ pc' = "done"
                  /\ UNCHANGED comments
    /\ UNCHANGED <<runNumber, inputs, pipelineVars, warnings, targetComments, inflight>>

\* The workflow starts the action again on the same pull request, once the
\* process of the run before has ended (run() has returned and no removal
\* request is pending): run() starts from line 29 on the comments the pull
\* request has by then.
StartRun ==
    /\ pc = "done"
    /\ inflight = {}
    /\ runNumber < MaxRuns
    /\ runNumber' = runNumber + 1
    /\ pc' = "plans"
    /\ planIndex' = 0
    /\ position' = 0
    /\ recordCount' = 0
    /\ resolvedCommentHeader' = ""
    /\ planChanges' = EmptyPlanChanges
    /\ last' = <<>>
    /\ planComments' = <<>>
    /\ plansWithChanges' = 0
    /\ failed' = <<>>
    /\ warnings' = {}
    /\ targetComments' = {}
    /\ handed' = <<>>
    /\ UNCHANGED <<inputs, comments, inflight>>

(***************************************************************************)
(* Inputs of the model.                                                    *)
(***************************************************************************)
\* The action inputs: both settings of each option.
Configurations ==
    {[expandComment |-> FALSE, headingPlanVariableName |-> "",
      commentHeader |-> "Terraform plan", removePreviousComments |-> FALSE],
     [expandComment |-> TRUE, headingPlanVariableName |-> "heading",
      commentHeader |-> "Terraform plan", removePreviousComments |-> TRUE]}

\* Plan files: unparsable, without resource_changes, with or without the
\* heading variable.
Plans ==
    {[parses |-> FALSE, variables |-> {}, resource_changes |-> FALSE],
     [parses |-> TRUE, variables |-> {}, resource_changes |-> FALSE],
     [parses |-> TRUE, variables |-> {}, resource_changes |-> TRUE],
     [parses |-> TRUE, variables |-> {"heading"}, resource_changes |-> TRUE]}

\* The action sequences of resource change entries.
ActionLists ==
    {<<"no-op">>, <<"create">>, <<"delete">>, <<"update">>, <<"read">>,
     <<"delete", "create">>, <<"create", "delete">>}

\* Mappings over the given attribute names and values.
MapsOver(keys, values) == UNION {[d -> values] : d \in SUBSET keys}

\* A mapping that may be absent or null.
Optional(maps) == {{}} \cup {{m} : m \in maps}

\* Entries of the whole-run specification: every action sequence, with and
\* without the importing marker, one short attribute.
ResourceChanges ==
    {resourceChange \in
        [actions : ActionLists,
         importing : BOOLEAN,
         before : {{}},
         after : {{[content |-> "x"]}},
         before_sensitive : {{}},
         after_sensitive : {{}}] :
        resourceChange.importing => resourceChange.actions \in {<<"no-op">>, <<"update">>}}

\* Entries of the size specification: attributes whose text is short or
\* long, under actions that keep the entry.
SizedResourceChanges ==
    [actions : {<<"create">>, <<"update">>, <<"no-op">>},
     importing : {FALSE},
     before : {{}},
     after : {{[content |-> "x"]}, {[content |-> LongValue]}},
     before_sensitive : {{}},
     after_sensitive : {{}}]

\* Attribute mappings of the redaction specification: "password" is absent,
\* one of two scalars or a nested value; "token" is a scalar.
SensitiveAttributes ==
    {m \in MapsOver({"password", "token"}, {"a", "b"} \cup NestedValues) :
        "token" \in DOMAIN m /\ m["token"] = "a"}

\* Sensitivity mappings: absent, marking "password", or marking both.
SensitivityMarkers ==
    {{}, {[password |-> TRUE]}, {[password |-> TRUE, token |-> TRUE]}}

\* Entries of the redaction specification: each mapping absent or present,
\* attributes marked sensitive on either side or on both, under an action
\* that keeps the entry.
SensitiveResourceChanges ==
    [actions : {<<"update">>},
     importing : {FALSE},
     before : Optional(SensitiveAttributes),
     after : Optional(SensitiveAttributes),
     before_sensitive : SensitivityMarkers,
     after_sensitive : SensitivityMarkers]

\* The pull request's comments before the run: one left by an earlier run
\* and one written by a person.
ExistingComments ==
    {[id |-> 1, footer |-> TRUE, report |-> 0],
     [id |-> 2, footer |-> FALSE, report |-> 0]}

\* The action inputs of the specification of the comment sink.
SinkConfigurations ==
    {[expandComment |-> FALSE, headingPlanVariableName |-> "",
      commentHeader |-> "Terraform plan", removePreviousComments |-> TRUE]}

\* Entries of the specification of the comment sink: one that is reported
\* and one that is not.
SinkResourceChanges ==
    [actions : {<<"create">>, <<"no-op">>},
     importing : {FALSE},
     before : {{}},
     after : {{[content |-> "x"]}},
     before_sensitive : {{}},
     after_sensitive : {{}}]

\* The pull request's comments before the first run of the specification of
\* the comment sink: two that hold the footer and one that does not.
SinkComments ==
    {[id |-> 1, footer |-> TRUE, report |-> 0],
     [id |-> 2, footer |-> FALSE, report |-> 0],
     [id |-> 3, footer |-> TRUE, report |-> 0]}

(***************************************************************************)
(* The whole run.                                                          *)
(***************************************************************************)
Init == InitWith(Configurations, ExistingComments)

\* The steps of a run whose resource change entries are drawn from a set.
NextWith(resourceChanges, maxRecords) ==
    \/ \E plan \in Plans : ParsePlan(plan)
    \/ /\ pc = "records"
       /\ recordCount < maxRecords
       /\ \E resourceChange \in resourceChanges : ProcessResourceChange(resourceChange)
    \/ InvalidResourceChange
    \/ AssemblePlan
    \/ EndOfPlans
    \/ \E answered \in BOOLEAN : QueryComments(answered)
    \/ \E id \in inflight, removed \in BOOLEAN : RemovalSettles(id, removed)
    \/ \E created \in BOOLEAN : PublishComment(created)

Next == NextWith(ResourceChanges, MaxRecords)

Spec == Init /\ [][Next]_vars

\* The run on entries with short and long attribute texts.
NextSize == NextWith(SizedResourceChanges, MaxRecords)

SpecSize == Init /\ [][NextSize]_vars

\* The run on entries with sensitive attributes.
NextRedact == NextWith(SensitiveResourceChanges, MaxSensitiveRecords)

SpecRedact == Init /\ [][NextRedact]_vars

\* Runs one after the other on one pull request.
InitSink == InitWith(SinkConfigurations, SinkComments)

NextSink ==
    \/ NextWith(SinkResourceChanges, MaxSinkRecords)
    \/ StartRun

SpecSink == InitSink /\ [][NextSink]_vars

(***************************************************************************)
(* Properties of the redaction.                                            *)
(***************************************************************************)
\* The keys either sensitivity mapping of an entry lists.
SensitiveKeys(resourceChange) ==
    DOMAIN OrEmpty(resourceChange.before_sensitive)
    \cup DOMAIN OrEmpty(resourceChange.after_sensitive)

\* The lines of the ChangeDif pushed for the entry the loop body ran on last.
LastDiffLines ==
    LET pushed == planChanges.ResouceChangeBody[Len(planChanges.ResouceChangeBody)].ChangeDif
    IN pushed.removed \cup pushed.added

C2_UnchangedSensitiveRemoved ==
    last # <<>> =>
        LET entry  == last[1]
            before == OrEmpty(entry.resourceChange.before)
            after  == OrEmpty(entry.resourceChange.after)
        IN \A key \in SensitiveKeys(entry.resourceChange) :
              Get(before, key) = Get(after, key) =>
                 /\ key \notin DOMAIN entry.beforeChanges
                 /\ key \notin DOMAIN entry.afterChanges
                 /\ ~entry.noChanges => \A line \in LastDiffLines : line[1] # key

(***************************************************************************)
(* Properties of the classification.                                       *)
(***************************************************************************)
\* This step ran the loop body on one entry of resource_changes.
EntryTaken == recordCount' = recordCount + 1

\* The five counters of a planChanges.
Counters(changes) ==
    [Create  |-> changes.CreateResourcesCount,
     Update  |-> changes.UpdateResourcesCount,
     Destroy |-> changes.DestroyResourcesCount,
     Replace |-> changes.ReplaceResourcesCount,
     Import  |-> changes.ImportResourcesCount]

KnownVerbs == {"no-op", "create", "delete", "update"}

\* C3: an entry whose actions hold both "create" and "delete", in either
\* order, is resolved to Replace and raises the Create, Destroy and Replace
\* counters by one each, leaving Update and Import as they were.
C3_BothVerbsAreReplace ==
    [][(/\ EntryTaken
        /\ Includes(last'[1].resourceChange.actions, "create")
        /\ Includes(last'[1].resourceChange.actions, "delete"))
       => /\ last'[1].overallAction = "Replace"
          /\ Counters(planChanges') =
                [Counters(planChanges) EXCEPT !.Create = @ + 1,
                                              !.Destroy = @ + 1,
                                              !.Replace = @ + 1]]_vars

\* C4: an entry whose first action is "no-op" and that has no importing
\* marker adds nothing to ResouceChangeBody and leaves the five counters
\* as they were.
C4_NoOpLeavesPlanChanges ==
    [][(/\ EntryTaken
        /\ last'[1].resourceChange.actions[1] = "no-op"
        /\ ~last'[1].resourceChange.importing)
       => /\ planChanges'.ResouceChangeBody = planChanges.ResouceChangeBody
          /\ Counters(planChanges') = Counters(planChanges)]_vars

\* C4 witness: a plain no-op entry was taken after an entry that was kept.
C4_Witness ==
    /\ last # <<>>
    /\ last[1].resourceChange.actions[1] = "no-op"
    /\ ~last[1].resourceChange.importing
    /\ position = 2
    /\ Len(planChanges.ResouceChangeBody) = 1

\* This step collected the comment body of the current plan.
ReportEmitted == Len(planComments') = Len(planComments) + 1

\* C5: an entry whose first action is "no-op" and that has the importing
\* marker adds exactly one element, with action Import, to
\* ResouceChangeBody and raises the Import counter alone, by one; and the
\* comment body collected for a plan has the Import section with the
\* ChangeDif of every such element.
C5_NoOpImportIsReported ==
    [][/\ (/\ EntryTaken
            /\ last'[1].resourceChange.actions[1] = "no-op"
            /\ last'[1].resourceChange.importing)
           => /\ Len(planChanges'.ResouceChangeBody) =
                    Len(planChanges.ResouceChangeBody) + 1
              /\ SubSeq(planChanges'.ResouceChangeBody, 1,
                        Len(planChanges.ResouceChangeBody)) = planChanges.ResouceChangeBody
              /\ planChanges'.ResouceChangeBody[Len(planChanges'.ResouceChangeBody)].Action
                    = "Import"
              /\ Counters(planChanges') =
                    [Counters(planChanges) EXCEPT !.Import = @ + 1]
       /\ ReportEmitted
           => LET report == planComments'[Len(planComments')]
              IN \A i \in DOMAIN planChanges.ResouceChangeBody :
                    planChanges.ResouceChangeBody[i].Action = "Import"
                    => /\ "Import" \in DOMAIN report.sections
                       /\ \E j \in DOMAIN report.sections["Import"] :
                             report.sections["Import"][j] = planChanges.ResouceChangeBody[i]
      ]_vars

\* C5 witness: a comment body with an Import section was handed to
\* CreatePRComment.
C5_Witness ==
    \E i \in DOMAIN handed :
        /\ "Import" \in DOMAIN handed[i].sections
        /\ handed[i].badges.Import = 1

\* C6: every entry taken adds no element or one element to
\* ResouceChangeBody, none exactly when it is a no-op without the importing
\* marker, and every element of ResouceChangeBody has one of the five
\* actions.
C6_DroppedIffNoOp ==
    [][EntryTaken
       => LET added == Len(planChanges'.ResouceChangeBody)
                       - Len(planChanges.ResouceChangeBody)
              entry == last'[1].resourceChange
          IN /\ added \in {0, 1}
             /\ added = 0 <=> (entry.actions[1] = "no-op" /\ ~entry.importing)
             /\ \A i \in DOMAIN planChanges'.ResouceChangeBody :
                   planChanges'.ResouceChangeBody[i].Action \in Categories]_vars

\* C6, amended: every entry taken adds no element or one element to
\* ResouceChangeBody, none exactly when it is a no-op without the importing
\* marker or its first action is none of "no-op", "create", "delete",
\* "update"; and every element of ResouceChangeBody has one of the five
\* actions.
C6_DroppedIffNoOpOrUnknownVerb ==
    [][EntryTaken
       => LET added == Len(planChanges'.ResouceChangeBody)
                       - Len(planChanges.ResouceChangeBody)
              entry == last'[1].resourceChange
          IN /\ added \in {0, 1}
             /\ added = 0 <=> \/ (entry.actions[1] = "no-op" /\ ~entry.importing)
                               \/ entry.actions[1] \notin KnownVerbs
             /\ \A i \in DOMAIN planChanges'.ResouceChangeBody :
                   planChanges'.ResouceChangeBody[i].Action \in Categories]_vars

\* C6 witness: a "read" entry was taken after an entry that was kept, and
\* added nothing.
C6_Witness ==
    /\ last # <<>>
    /\ last[1].resourceChange.actions[1] = "read"
    /\ position = 2
    /\ Len(planChanges.ResouceChangeBody) = 1
    /\ planChanges.ResouceChangeBody[1].Action \in Categories

\* C7: an entry whose first action is none of "no-op", "create", "delete",
\* "update" ends the run as failed.
C7_UnknownVerbFails ==
    [][(EntryTaken /\ last'[1].resourceChange.actions[1] \notin KnownVerbs)
       => /\ pc' = "done"
          /\ Len(failed') = Len(failed) + 1]_vars

\* C7, amended: an entry whose first action is none of "no-op", "create",
\* "delete", "update" is dropped: nothing is added to ResouceChangeBody, no
\* counter moves, nothing is reported as failed and the loop goes on.
C7_UnknownVerbDropped ==
    [][(EntryTaken /\ last'[1].resourceChange.actions[1] \notin KnownVerbs)
       => /\ planChanges' = planChanges
          /\ failed' = failed
          /\ pc' = "records"]_vars

\* C7 witness: the first entry of a plan was a "read", and the loop is still
\* running with nothing reported as failed.
C7_Witness ==
    /\ last # <<>>
    /\ last[1].resourceChange.actions[1] = "read"
    /\ last[1].noChanges
    /\ position = 1
    /\ pc = "records"
    /\ failed = <<>>

(***************************************************************************)
(* Properties of the assembly.                                             *)
(***************************************************************************)
\* This step left the loop over the entries of a plan at its end (not by an
\* entry that could not be read).
PlanLoopEnded ==
    /\ pc = "records"
    /\ pc' # "records"
    /\ ~(/\ Len(failed') = Len(failed) + 1
         /\ failed'[Len(failed')].kind = "invalid")

\* The comment body of the current plan, in full.
FullCommentBody == CommentBody(resolvedCommentHeader, planChanges, inputs.expandComment)

\* C8: when the comment body of a plan with changes is longer than 65536
\* characters, the run ends there as failed, with a message that names the
\* length and 65536, and nothing was or will be handed to CreatePRComment;
\* every body collected is the full body, and every body handed over is a
\* collected one of at most 65536 characters.
C8_OverflowFailsClosed ==
    [][/\ (/\ PlanLoopEnded
            /\ planChanges.ResouceChangeBody # <<>>
            /\ CommentBodyLen(FullCommentBody) > 65536)
           => /\ pc' = "done"
              /\ failed' = Append(failed, [kind |-> "size", plan |-> planIndex,
                                           actual |-> CommentBodyLen(FullCommentBody),
                                           max |-> 65536])
              /\ planComments' = planComments
              /\ handed' = <<>>
       /\ ReportEmitted => planComments'[Len(planComments')] = FullCommentBody
       /\ \A i \in DOMAIN handed' :
             /\ handed'[i] = planComments'[i]
             /\ CommentBodyLen(handed'[i]) <= 65536
       /\ (\E i \in DOMAIN failed' : failed'[i].kind = "size")
           => (pc' = "done" /\ handed' = <<>>)
      ]_vars

\* C8 witness: the run failed on the size of the second plan's body, after
\* the body of the first plan was collected; nothing was handed over.
C8_Witness ==
    /\ pc = "done"
    /\ Len(failed) = 1
    /\ failed[1].kind = "size"
    /\ failed[1].actual > 65536
    /\ Len(planComments) = 1
    /\ handed = <<>>

\* C9: a plan whose loop ends with an empty ResouceChangeBody adds no
\* comment body, and a run that ends without a failure has handed to
\* CreatePRComment as many bodies as it had plans with a non-empty
\* ResouceChangeBody.
C9_EmptyPlansGetNoReport ==
    [][/\ (PlanLoopEnded /\ planChanges.ResouceChangeBody = <<>>)
           => (planComments' = planComments /\ pc' = "plans")
       /\ (pc' = "done" /\ failed' = <<>>)
           => Len(handed') = plansWithChanges'
      ]_vars

\* C9 witness: a run over two plans, one of them without changes, ended
\* without a failure and handed over one body.
C9_Witness ==
    /\ pc = "done"
    /\ failed = <<>>
    /\ planIndex = 2
    /\ plansWithChanges = 1
    /\ Len(handed) = 1

\* The places of a ChangeDif block in the sections of a comment body.
Occurrences(sections, block) ==
    UNION {{<<c, j>> : j \in {k \in DOMAIN sections[c] : sections[c][k] = block}} :
             c \in DOMAIN sections}

\* C10: in the comment body collected for a plan, a category has its
\* section if and only if ResouceChangeBody has an element of that
\* category, no section is empty, and every element of ResouceChangeBody
\* is in exactly one place of the sections, in the section of its category.
C10_SectionsMatchCategories ==
    [][ReportEmitted
       => LET report == planComments'[Len(planComments')]
              body   == planChanges.ResouceChangeBody
          IN /\ \A c \in Categories :
                   c \in DOMAIN report.sections <=> \E i \in DOMAIN body : body[i].Action = c
             /\ \A c \in DOMAIN report.sections : report.sections[c] # <<>>
             /\ \A i \in DOMAIN body :
                   /\ Cardinality(Occurrences(report.sections, body[i])) = 1
                   /\ \A place \in Occurrences(report.sections, body[i]) :
                         place[1] = body[i].Action
      ]_vars

\* C10 witness: a collected comment body for a plan with a created, a
\* replaced and a destroyed resource has the Create, Replace and Destroy
\* sections.
C10_Witness ==
    \E i \in DOMAIN planComments :
        /\ {"Create", "Replace", "Destroy"} \subseteq DOMAIN planComments[i].sections
        /\ planComments[i].badges.Replace = 1
        /\ planComments[i].badges.Create = 2
        /\ planComments[i].badges.Destroy = 2

(***************************************************************************)
(* Properties of the cleanup and the publication.                          *)
(***************************************************************************)
\* The comments of the pull request whose body holds the footer.
WithFooter(existing) == {c \in existing : c.footer}

\* This step is RemoveCommentsByLookupText, from its call to its return.
CleanupReturned == pc = "cleanup" /\ pc' = "publish"

\* This step settles the removal of a comment.
RemovalSettled(id) ==
    /\ pc # "cleanup"
    /\ id \in inflight
    /\ inflight' = inflight \ {id}

\* C11: RemoveCommentsByLookupText requests the removal of exactly the
\* comments retrieved whose body holds the lookup text; only a comment whose
\* removal was requested ever leaves the pull request; and a removal that
\* fails adds a warning for its comment, leaves the removals of the other
\* comments pending, and neither fails the run nor moves it.
C11_RemovalsAreByMarkerAndIndependent ==
    [][/\ CleanupReturned
           => /\ targetComments' = WithFooter(comments)
              /\ inflight' = {c.id : c \in WithFooter(comments)}
       /\ \A c \in comments \ comments' : c.footer /\ c \in targetComments /\ c.id \in inflight
       /\ \A id \in inflight :
             (RemovalSettled(id) /\ \E c \in comments' : c.id = id)
             => /\ [kind |-> "removal", subject |-> ToString(id)] \in warnings'
                /\ comments' = comments
                /\ failed' = failed
                /\ pc' = pc
                /\ handed' = handed
      ]_vars

\* C11 witness: the removal of comment 1 failed and was logged, the removal
\* of comment 3 went through, the comment without the footer is in place,
\* and the run ended without a failure.
C11_Witness ==
    /\ runNumber = 1
    /\ pc = "done"
    /\ failed = <<>>
    /\ inflight = {}
    /\ [kind |-> "removal", subject |-> "1"] \in warnings
    /\ \E c \in comments : c.id = 1
    /\ \E c \in comments : c.id = 2
    /\ ~\E c \in comments : c.id = 3

\* The comment was created by CreatePRComment in the given run.
PublishedBy(comment, run) == comment.id \div 100 = run

\* The removal of the comment failed and was logged.
RemovalFailed(comment) ==
    [kind |-> "removal", subject |-> ToString(comment.id)] \in warnings

\* C12 as stated: every body handed to CreatePRComment holds the footer; the
\* cleanup of a later run selects every report of the run before that it
\* retrieves; and a later run removes all of these and nothing else.
C12_LaterRunRemovesAllAndOnlyPreviousReports ==
    [][/\ \A i \in DOMAIN handed' : handed'[i].footer = COMMENT_FOOTER
       /\ (CleanupReturned /\ runNumber >= 2)
           => \A c \in comments : PublishedBy(c, runNumber - 1) => c \in targetComments'
       /\ runNumber >= 2
           => \A c \in comments \ comments' : PublishedBy(c, runNumber - 1)
       /\ (runNumber' >= 2 /\ pc' = "done" /\ inflight' = {})
           => \A c \in targetComments' :
                 PublishedBy(c, runNumber' - 1) => c \notin comments'
      ]_vars

\* C12: every body handed to CreatePRComment holds the footer and the
\* comment created from it does too; the cleanup of a later run selects
\* every comment it retrieves whose body holds the footer, the reports of
\* earlier runs among them, and no comment without the footer; only
\* selected comments are removed; and a selected comment that is still in
\* place when its removal has settled is one whose removal failed and was
\* logged.
C12_FooterSelectsForRemoval ==
    [][/\ \A i \in DOMAIN handed' : handed'[i].footer = COMMENT_FOOTER
       /\ \A c \in comments' \ comments : c.footer /\ PublishedBy(c, runNumber)
       /\ (CleanupReturned /\ runNumber >= 2)
           => /\ \A c \in comments :
                    (\E run \in 1..(runNumber - 1) : PublishedBy(c, run))
                    => c \in targetComments'
              /\ \A c \in targetComments' : c.footer
       /\ \A c \in comments \ comments' : c.footer /\ c \in targetComments
       /\ \A c \in targetComments' :
             c \in comments' => (c.id \in inflight' \/ RemovalFailed(c)')
      ]_vars

\* C12 witness: the second run has ended; its cleanup selected the report
\* of the first run and removed it, and the second run's report is in place.
C12_Witness ==
    /\ runNumber = 2
    /\ pc = "done"
    /\ failed = <<>>
    /\ inflight = {}
    /\ \E c \in targetComments : c.id = 101 /\ c \notin comments
    /\ \E c \in comments : c.id = 201

\* This step is a CreatePRComment call that was rejected.
PublishRejected ==
    /\ pc = "publish"
    /\ Len(handed') = Len(handed) + 1
    /\ Len(failed') = Len(failed) + 1

\* C13 as stated: a run that has started to publish hands every collected
\* body to CreatePRComment, also when one of the calls was rejected.
C13_RejectedPublishDoesNotBlock ==
    (pc = "done" /\ handed # <<>>) => Len(handed) = Len(planComments)

\* C13: a rejected CreatePRComment call fails the run and ends it there:
\* the bodies collected after the rejected one are not handed to
\* CreatePRComment, and the comments created before it stay.
C13_RejectedPublishEndsRun ==
    [][/\ PublishRejected
           => /\ pc' = "done"
              /\ failed' = Append(failed, [kind |-> "error", plan |-> 0,
                                           actual |-> 0, max |-> 0])
              /\ comments' = comments
       /\ (pc = "done" /\ runNumber' = runNumber)
           => (handed' = handed /\ failed' = failed /\ pc' = "done")
      ]_vars

\* C13 witness: two bodies were collected, the first CreatePRComment call
\* was rejected, and the run ended failed with the second body never handed
\* over.
C13_Witness ==
    /\ pc = "done"
    /\ Len(planComments) = 2
    /\ Len(handed) = 1
    /\ Len(failed) = 1
    /\ failed[1].kind = "error"
    /\ ~\E c \in comments : PublishedBy(c, runNumber)

\* C14: once core.setFailed was called for a plan (its resource_changes
\* missing or unreadable, or its comment body too long), run() has returned:
\* that plan is the last one taken, it is the only failure, nothing was
\* handed to CreatePRComment, no removal was requested and the pull
\* request's comments are the ones it had before the run.
C14_FailFast ==
    \A i \in DOMAIN failed :
        failed[i].kind \in {"invalid", "size"}
        => /\ pc = "done"
           /\ Len(failed) = 1
           /\ planIndex = failed[i].plan
           /\ handed = <<>>
           /\ targetComments = {}
           /\ inflight = {}
           /\ comments = ExistingComments

\* C14 witness: the first plan's comment body was collected, the second
\* plan had an entry that could not be read, and the run ended failed with
\* nothing published and nothing removed.
C14_Witness ==
    /\ pc = "done"
    /\ Len(failed) = 1
    /\ failed[1].kind = "invalid"
    /\ failed[1].plan = 2
    /\ position >= 1
    /\ Len(planComments) = 1
    /\ handed = <<>>
    /\ comments = ExistingComments

\* C15: with remove-previous-comments off, the run makes no cleanup call:
\* nothing is retrieved, no removal is requested, and the comments the pull
\* request had stay; with it on, a body is handed to CreatePRComment only
\* after RemoveCommentsByLookupText has returned.
C15_PurgeOptionGovernsCleanup ==
    /\ ~inputs.removePreviousComments
       => /\ pc # "cleanup"
          /\ targetComments = {}
          /\ inflight = {}
          /\ ExistingComments \subseteq comments
    /\ (inputs.removePreviousComments /\ handed # <<>>)
       => pc \in {"publish", "done"}

(***************************************************************************)
(* Properties of the diff and of the order of the report.                  *)
(***************************************************************************)
\* This step pushed an element onto ResouceChangeBody.
ElementPushed ==
    /\ EntryTaken
    /\ Len(planChanges'.ResouceChangeBody) = Len(planChanges.ResouceChangeBody) + 1

\* The element the loop body pushed last.
LastPushed == planChanges.ResouceChangeBody[Len(planChanges.ResouceChangeBody)]

\* The patch has the action in the header of its "+++" line and no header
\* in its "---" line.
ActionInNewHeader(element) ==
    /\ element.ChangeDif.newHeader = element.Action
    /\ element.ChangeDif.oldHeader = Undefined

\* The patch has the action in the header of its "---" line and no header
\* in its "+++" line.
ActionInOldHeader(element) ==
    /\ element.ChangeDif.oldHeader = element.Action
    /\ element.ChangeDif.newHeader = Undefined

\* C16 as stated: the patch of a pushed element has its action in the new
\* header, with the old header blank, for Create, Update, Import and
\* Replace, and in the old header, with the new header blank, for Destroy
\* only.
C16_ReplaceLabelledLikeCreate ==
    [][ElementPushed
       => /\ LastPushed'.Action \in {"Create", "Update", "Import", "Replace"}
             => ActionInNewHeader(LastPushed')
          /\ LastPushed'.Action = "Destroy" => ActionInOldHeader(LastPushed')
      ]_vars

\* C16: the patch of a pushed element has its action in the new header,
\* with the old header blank, for Create, Update and Import, and in the old
\* header, with the new header blank, for Destroy and for Replace.
C16_ReplaceLabelledLikeDestroy ==
    [][ElementPushed
       => /\ LastPushed'.Action \in Categories
          /\ LastPushed'.Action \in {"Create", "Update", "Import"}
             => ActionInNewHeader(LastPushed')
          /\ LastPushed'.Action \in {"Destroy", "Replace"}
             => ActionInOldHeader(LastPushed')
      ]_vars

\* C16 witness: the loop body pushed a Replace element whose patch has
\* "Replace" in its old header and no new header.
C16_Witness ==
    /\ planChanges.ResouceChangeBody # <<>>
    /\ LastPushed.Action = "Replace"
    /\ LastPushed.ChangeDif.oldHeader = "Replace"
    /\ LastPushed.ChangeDif.newHeader = Undefined

\* The position in resource_changes of the entry an element was pushed for.
PositionOf(element) == CHOOSE n \in 1..MaxRecords : element.Address = AddressAt(n)

\* C17: an entry that is kept is pushed at the end of ResouceChangeBody and
\* an entry that is dropped leaves it as it is, so inside the loop over
\* resource_changes its elements are always in the order of their entries,
\* none from an entry not yet taken; and in a collected
\* comment body the blocks of a section are in the order of their entries
\* in resource_changes.
C17_OrderPreserved ==
    [][/\ EntryTaken
           => \/ planChanges'.ResouceChangeBody = planChanges.ResouceChangeBody
              \/ /\ ElementPushed
                 /\ planChanges'.ResouceChangeBody =
                       Append(planChanges.ResouceChangeBody, LastPushed')
                 /\ LastPushed'.Address = AddressAt(position')
       /\ pc' = "records"
           => \A i, j \in DOMAIN planChanges'.ResouceChangeBody :
                 i < j => /\ PositionOf(planChanges'.ResouceChangeBody[i])
                              < PositionOf(planChanges'.ResouceChangeBody[j])
                          /\ PositionOf(planChanges'.ResouceChangeBody[j]) <= position'
       /\ ReportEmitted
           => LET report == planComments'[Len(planComments')]
              IN \A c \in DOMAIN report.sections :
                    \A i, j \in DOMAIN report.sections[c] :
                       i < j => PositionOf(report.sections[c][i])
                                   < PositionOf(report.sections[c][j])
      ]_vars

\* C17 witness: a collected comment body whose Create section holds the
\* blocks of the first and the third entry, in that order, with an entry of
\* another category between them.
C17_Witness ==
    \E i \in DOMAIN planComments :
        /\ "Create" \in DOMAIN planComments[i].sections
        /\ "Update" \in DOMAIN planComments[i].sections
        /\ Len(planComments[i].sections["Create"]) = 2
        /\ planComments[i].sections["Create"][1].Address = AddressAt(1)
        /\ planComments[i].sections["Create"][2].Address = AddressAt(3)

\* C18: RemoveCommentsByLookupText returns with every removal requested and
\* none carried out, before any body is handed to CreatePRComment; from
\* then on the comments to remove stay the ones retrieved, removals settle
\* only for them, including while and after bodies are published, and a
\* comment created by the run is never removed in that run.
C18_TargetsFixedBeforePublish ==
    [][/\ CleanupReturned
           => /\ handed = <<>>
              /\ comments' = comments
              /\ inflight' = {c.id : c \in targetComments'}
              /\ \A c \in targetComments' : c \in comments /\ ~PublishedBy(c, runNumber)
       /\ (pc \in {"publish", "done"} /\ runNumber' = runNumber)
           => /\ targetComments' = targetComments
              /\ inflight' \subseteq inflight
       /\ \A c \in comments \ comments' :
             /\ c \in targetComments
             /\ c.id \in inflight
             /\ ~PublishedBy(c, runNumber)
       /\ \A c \in comments :
             PublishedBy(c, runNumber) => (c \in comments' /\ c.id \notin inflight')
      ]_vars

\* C18 witness: in the second run, a body was published while the removal
\* of the first run's report was still pending, and the removal of comment 1
\* had already gone through.
C18_Witness ==
    /\ runNumber = 2
    /\ pc \in {"publish", "done"}
    /\ Len(handed) = 1
    /\ \E c \in comments : c.id = 201
    /\ 101 \in inflight
    /\ \E c \in comments : c.id = 101
    /\ \E c \in targetComments : c.id = 1 /\ c \notin comments

\* C19: as long as no comment body was collected, and so in a run that ends
\* with none, RemoveCommentsByLookupText is not called: nothing is
\* retrieved, no removal is requested, nothing is published, and the pull
\* request's comments are the ones it had before the run.
C19_NoReportsNoCleanup ==
    planComments = <<>>
    => /\ pc \notin {"cleanup", "publish"}
       /\ targetComments = {}
       /\ inflight = {}
       /\ handed = <<>>
       /\ comments = ExistingComments

\* C19 witness: a run over two plans whose entries were all dropped ended
\* without a failure and without a comment body, the comment left by an
\* earlier run still in place.
C19_Witness ==
    /\ pc = "done"
    /\ failed = <<>>
    /\ planIndex = 2
    /\ recordCount >= 2
    /\ planComments = <<>>
    /\ targetComments = {}
    /\ \E c \in comments : c.id = 1 /\ c.footer

====
